---- MODULE Spec2Model ----
(***************************************************************************)
(* A model of smbfs (src/smbfs/__init__.py): the SMB error translator      *)
(* (_conv_smb_errors), the two-path disambiguation (_determine_cause), the *)
(* path normaliser (_absnorm_path) and the SMBFS adapter's operations over *)
(* one lazily established connection, together with the remote share the   *)
(* wrapped client talks to.                                                *)
(***************************************************************************)
EXTENDS Integers, Sequences, FiniteSets, TLC

VARIABLES
    tree,    \* the remote share: path -> "none" | "file" | "dir"
    conn,    \* SMBFS._conn: "None" | "unconnected" | "connected"
    live,    \* SMBConnection objects created by the adapter and not yet closed
    net,     \* what the network / server does to the client's next calls
    res,     \* the last adapter operation: its arguments and what the caller got
    calls,   \* the calls the last operation issued on the wrapped client
    conv,    \* the translator alone: one failure and what it was translated to
    lock,    \* FS._lock (an RLock): its owner and its depth
    stack,   \* per thread: the adapter methods it is inside, innermost last
    at       \* per thread: "run", "wait" (for the lock) or "client" (inside it)

vars == <<tree, conn, live, net, res, calls, conv, lock, stack, at>>

----------------------------------------------------------------------------
(* Paths: a path is the sequence of its components, <<>> is the root "/".   *)

Paths ==
    { <<>>, <<"a">>, <<"a", "b">>, <<"a", "b", "c">>, <<"a", "f">>,
      <<"d">>, <<"d", "e">> }

\* fs.path.dirname: the root is its own parent.
dirname(p) == IF Len(p) = 0 THEN p ELSE SubSeq(p, 1, Len(p) - 1)

\* fs.path.basename: the empty string for the root.
basename(p) == IF Len(p) = 0 THEN "" ELSE p[Len(p)]

\* fs.path.recursepath: every prefix of the path, the root first.
recursepath(p) == [i \in 1..(Len(p) + 1) |-> SubSeq(p, 1, i - 1)]

\* fs.path.normpath then abspath: "." components are dropped, the result is
\* rooted. A raw argument is a sequence of components that may hold ".".
RECURSIVE normpath(_)
normpath(raw) ==
    IF raw = <<>> THEN <<>>
    ELSE IF Head(raw) = "." THEN normpath(Tail(raw))
    ELSE <<Head(raw)>> \o normpath(Tail(raw))

\* The arguments callers hand in: the canonical paths and, for each, a form
\* with "." components in it.
RawPaths == Paths \cup { <<".">>, <<".", "a", ".", "f">>, <<"d", ".", "e">> }

\* What a path-less error carries, the share name and the adapter object
\* (args[0] of a decorated method), as values distinct from every path.
NoPath == <<"<no path>">>
SHARE  == <<"<share>">>
SELF   == <<"<SMBFS object>">>

----------------------------------------------------------------------------
(* Failures of the wrapped client.                                          *)

NoExc == [type |-> "none", errno |-> "", msgs |-> <<>>]

\* The status codes _conv_smb_errors knows, as the source writes them.
MappedStatus ==
    { "0x103", "0xc000000f", "0xc0000022", "0xc0000033", "0xc0000034",
      "0xc0000035", "0xc000003a", "0xc0000056", "0xc000006f", "0xc0000071",
      "0xc00000ba", "0xc00000cc", "0xc00000d0", "0xc0000101", "0xc0000103",
      "0xc0000193", "0xc0000224", "0xc0000234" }

\* Two codes the table does not hold (STATUS_UNSUCCESSFUL, STATUS_SHARING_VIOLATION).
UnmappedStatus == { "0xc0000001", "0xc0000043" }

StatusCodes == {"0x0"} \cup MappedStatus \cup UnmappedStatus

\* A response message: protocol 1 wraps the status in an object, protocol 2
\* carries it bare.
Msg(protocol, code) ==
    [protocol |-> protocol,
     status   |-> IF protocol = 1 THEN [internal_value |-> code]
                  ELSE [bare |-> code]]

OperationFailure(msgs) == [type |-> "OperationFailure", errno |-> "", msgs |-> msgs]
NotConnectedError == [type |-> "NotConnectedError", errno |-> "", msgs |-> <<>>]
NotReadyError     == [type |-> "NotReadyError", errno |-> "", msgs |-> <<>>]
GaiError(e)       == [type |-> "gaierror", errno |-> e, msgs |-> <<>>]
SocketError(e)    == [type |-> "socket.error", errno |-> e, msgs |-> <<>>]

----------------------------------------------------------------------------
(* The generic error taxonomy (fs.errors and the classes of lines 47-72).  *)

Taxonomy ==
    { "RemoteConnectionError", "ResourceNotFoundError", "ResourceInvalidError",
      "DestinationExistsError", "ParentDirectoryMissingError",
      "DirectoryNotEmptyError", "PermissionDeniedError", "DeletePendingError",
      "RemoveRootError", "AccountExpiredError", "AccountLockedError",
      "AccountTimeRestrictedError", "PasswordChangeRequiredError",
      "PasswordExpiredError" }

\* isinstance(e, FSError)
IsFSError(kind) == kind \in Taxonomy

\* What a call gives its caller: nothing raised, or an error of some kind
\* carrying a path. raw: the client's own exception object, re-raised.
NoErr == [kind |-> "none", path |-> NoPath, raw |-> FALSE]
Err(kind, path) == [kind |-> kind, path |-> path, raw |-> FALSE]
Raw(exc) == [kind |-> exc.type, path |-> NoPath, raw |-> TRUE]

\* Lines 96-99: protocol versions expose the status differently.
MsgStatus(msg) ==
    IF msg.protocol = 1 THEN msg.status.internal_value ELSE msg.status.bare

\* Lines 101-143: one message's status to the error raised for it.
ConvStatus(msg_status, share, path) ==
    CASE msg_status = "0x103"      -> Err("ResourceNotFoundError", path)
      [] msg_status = "0xc000000f" -> Err("ResourceNotFoundError", path)
      [] msg_status = "0xc0000022" -> Err("PermissionDeniedError", path)
      [] msg_status = "0xc0000033" -> Err("ResourceInvalidError", path)
      [] msg_status = "0xc0000034" -> Err("ResourceNotFoundError", path)
      [] msg_status = "0xc0000035" -> Err("DestinationExistsError", path)
      [] msg_status = "0xc000003a" -> Err("ResourceNotFoundError", path)
      [] msg_status = "0xc0000056" -> Err("DeletePendingError", path)
      [] msg_status = "0xc000006f" -> Err("AccountTimeRestrictedError", path)
      [] msg_status = "0xc0000071" -> Err("PasswordExpiredError", path)
      [] msg_status = "0xc00000ba" -> Err("ResourceInvalidError", path)
      [] msg_status = "0xc00000cc" -> Err("ResourceInvalidError", share)
      [] msg_status = "0xc00000d0" -> Err("ResourceInvalidError", path)
      [] msg_status = "0xc0000101" -> Err("DirectoryNotEmptyError", path)
      [] msg_status = "0xc0000103" -> Err("ResourceInvalidError", path)
      [] msg_status = "0xc0000193" -> Err("AccountExpiredError", path)
      [] msg_status = "0xc0000224" -> Err("PasswordChangeRequiredError", path)
      [] msg_status = "0xc0000234" -> Err("AccountLockedError", path)
      [] OTHER                     -> Err("Exception", NoPath)

RECURSIVE ConvMessages(_, _, _, _)

\* A translator that decides by the last message instead of the first.
ConvMessagesLast(exc, msgs, share, path) ==
    IF msgs = <<>> THEN Raw(exc)
    ELSE IF MsgStatus(msgs[Len(msgs)]) = "0x0"
         THEN ConvMessages(exc, SubSeq(msgs, 1, Len(msgs) - 1), share, path)
         ELSE ConvStatus(MsgStatus(msgs[Len(msgs)]), share, path)

\* Lines 94-144: the loop over e.smb_messages; the bare raise after it.
ConvMessages(exc, msgs, share, path) ==
    IF msgs = <<>> THEN Raw(exc)
    ELSE IF MsgStatus(Head(msgs)) = "0x0"
         THEN ConvMessages(exc, Tail(msgs), share, path)
         ELSE ConvStatus(MsgStatus(Head(msgs)), share, path)

\* Lines 81-84: the name-resolution error that becomes RemoteConnectionError.
GaiTranslated(exc) == exc.errno = "EAI_NONAME"

\* A translator that forgets the broken pipe.
SocketTranslatedNoPipe(exc) == exc.errno \in {"ECONNREFUSED", "ETIMEDOUT"}

\* Lines 85-88: the socket errors that become RemoteConnectionError.
SocketTranslated(exc) == exc.errno \in {"ECONNREFUSED", "EPIPE", "ETIMEDOUT"}

\* Lines 78-153: what inner() raises when outer() raised exc, called with
\* args[0] = share and args[1] = path.
ConvSmbErrors(exc, share, path) ==
    CASE exc.type = "gaierror" ->
            IF GaiTranslated(exc) THEN Err("RemoteConnectionError", NoPath)
            ELSE Raw(exc)
      [] exc.type = "socket.error" ->
            IF SocketTranslated(exc) THEN Err("RemoteConnectionError", NoPath)
            ELSE Raw(exc)
      [] exc.type = "OperationFailure" ->
            ConvMessages(exc, exc.msgs, share, path)
      [] exc.type = "NotConnectedError" -> Err("RemoteConnectionError", NoPath)
      [] exc.type = "NotReadyError" -> Err("RemoteConnectionError", NoPath)
      [] OTHER -> NoErr

----------------------------------------------------------------------------
(* The remote share, as the wrapped client (pysmb) reports it.              *)

Kind(t, p) == IF p \in Paths THEN t[p] ELSE "none"

Children(t, p) ==
    { q \in Paths : Len(q) = Len(p) + 1 /\ dirname(q) = p /\ t[q] # "none" }

\* The paths at or under p.
Under(p) == { q \in Paths : Len(q) >= Len(p) /\ SubSeq(q, 1, Len(p)) = p }

\* A share is a tree: what exists lies in a directory, and the root is one.
WellFormed(t) ==
    /\ t[<<>>] = "dir"
    /\ \A p \in Paths : (p # <<>> /\ t[p] # "none") => t[dirname(p)] = "dir"

\* A server failure with one status, in the protocol version of the session.
Status(code) == OperationFailure(<<Msg(2, code)>>)

\* STATUS_OBJECT_NAME_NOT_FOUND under an existing directory,
\* STATUS_OBJECT_PATH_NOT_FOUND when the containing directory is missing.
NotFound(t, p) ==
    IF Kind(t, dirname(p)) = "dir" THEN Status("0xc0000034") ELSE Status("0xc000003a")

\* Where rename takes the paths at or under src.
Moved(src, dst, q) == dst \o SubSeq(q, Len(src) + 1, Len(q))

\* The failure the server answers a call with, NoExc when it serves it.
ServerExc(fn, t, a, b) ==
    CASE fn = "listPath" ->
            IF Kind(t, a) = "dir" THEN NoExc
            ELSE IF Kind(t, a) = "file" THEN Status("0xc0000103")
            ELSE NotFound(t, a)
      [] fn = "createDirectory" ->
            IF Kind(t, a) # "none" THEN Status("0xc0000035")
            ELSE IF Kind(t, dirname(a)) # "dir" THEN Status("0xc000003a")
            ELSE NoExc
      [] fn = "deleteDirectory" ->
            IF Kind(t, a) = "none" THEN NotFound(t, a)
            ELSE IF Kind(t, a) = "file" THEN Status("0xc0000103")
            ELSE IF Children(t, a) # {} THEN Status("0xc0000101")
            ELSE NoExc
      [] fn = "deleteFiles" ->
            IF Kind(t, a) = "none" THEN NotFound(t, a)
            ELSE IF Kind(t, a) = "dir" THEN Status("0xc00000ba")
            ELSE NoExc
      [] fn = "storeFile" ->
            IF Kind(t, a) = "dir" THEN Status("0xc00000ba")
            ELSE IF Kind(t, dirname(a)) # "dir" THEN Status("0xc000003a")
            ELSE NoExc
      [] fn = "rename" ->
            IF Kind(t, a) = "none" THEN NotFound(t, a)
            ELSE IF Kind(t, b) # "none" THEN Status("0xc0000035")
            ELSE IF Kind(t, dirname(b)) # "dir" THEN Status("0xc000003a")
            ELSE NoExc
      [] OTHER -> NoExc

\* The share after the server served the call.
ServerEffect(fn, t, a, b) ==
    CASE fn = "createDirectory" -> [t EXCEPT ![a] = "dir"]
      [] fn = "deleteDirectory" -> [t EXCEPT ![a] = "none"]
      [] fn = "deleteFiles"     -> [t EXCEPT ![a] = "none"]
      [] fn = "storeFile"       -> [t EXCEPT ![a] = "file"]
      [] fn = "rename" ->
            [q \in Paths |->
                IF q \in Under(a) THEN "none"
                ELSE IF q \in Under(b) /\ Moved(b, a, q) \in Paths
                     THEN t[Moved(b, a, q)]
                ELSE t[q]]
      [] OTHER -> t

\* Whether everything under src has a place in the model's paths under dst.
RenameFits(t, src, dst) ==
    \A q \in Under(src) : t[q] # "none" => Moved(src, dst, q) \in Paths

\* A directory listing: ".", ".." and the entries of the directory.
ListEntries(t, p) ==
    { [filename |-> ".", isDirectory |-> TRUE],
      [filename |-> "..", isDirectory |-> TRUE] }
    \cup { [filename |-> basename(q), isDirectory |-> t[q] = "dir"] : q \in Children(t, p) }

----------------------------------------------------------------------------
(* The network. net is the failure the client's calls meet, NoExc when the *)
(* server is reachable and serves them.                                     *)

Faults ==
    { OperationFailure(<<Msg(2, "0xc0000001")>>),
      OperationFailure(<<Msg(2, "0x0")>>),
      OperationFailure(<<Msg(1, "0x0"), Msg(1, "0xc0000022")>>),
      NotConnectedError, NotReadyError,
      GaiError("EAI_NONAME"), SocketError("ECONNREFUSED"), SocketError("ECONNRESET") }

\* connect() resolves the name and opens the socket.
StrikesConnect(f) == f.type \in {"gaierror", "socket.error"}

\* A call on an established session.
StrikesCall(f) ==
    f.type \in {"OperationFailure", "NotConnectedError", "NotReadyError", "socket.error"}

\* What a call raises on an SMBConnection whose connect() failed: the
\* client either notices it holds no session or writes to the dead socket.
UnconnectedExcs == { NotConnectedError, SocketError("EPIPE"), SocketError("ENOTCONN") }

----------------------------------------------------------------------------
(* The adapter. A world w is what an operation reads and changes on its     *)
(* way: the share, _conn, the live connection objects, the calls issued.   *)
(* An environment e is what the operation cannot choose: net, and u, the   *)
(* failure of a call on an unconnected object.                              *)

Call(fn, a, b) == [fn |-> fn, a |-> a, b |-> b]

Ret(w, err) == [w |-> w, err |-> err]

Logged(w, c) == [w EXCEPT !.calls = Append(@, c)]

\* Lines 317-320: a new SMBConnection is bound to _conn, then connected.
Connect(w1, e) ==
    IF StrikesConnect(e.net)
    THEN Ret([w1 EXCEPT !.conn = "unconnected"], ConvSmbErrors(e.net, SELF, NoPath))
    ELSE Ret([w1 EXCEPT !.conn = "connected"], NoErr)

\* A property that connects on every access.
ConnEvery(w, e) ==
    Connect(Logged([w EXCEPT !.live = @ + 1], Call("connect", NoPath, NoPath)), e)

\* Lines 311-321: the conn property.
Conn(w, e) ==
    IF w.conn = "None"
    THEN Connect(Logged([w EXCEPT !.live = @ + 1], Call("connect", NoPath, NoPath)), e)
    ELSE Ret(w, NoErr)

\* What the client's method raises, called on the connection the adapter holds.
RaisedBy(w, fn, a, b, e) ==
    IF w.conn = "unconnected" THEN e.u
    ELSE IF StrikesCall(e.net) THEN e.net
    ELSE ServerExc(fn, w.tree, a, b)

\* The call itself under _conv_smb_errors: served, or x raised and converted.
Invoke(w1, x, fn, a, b, share, path) ==
    IF x.type = "none"
    THEN Ret([w1 EXCEPT !.tree = ServerEffect(fn, @, a, b)], NoErr)
    ELSE Ret(w1, ConvSmbErrors(x, share, path))

ClientCallOn(c, fn, a, b, share, path, e) ==
    IF c.err.kind # "none" THEN c
    ELSE Invoke(Logged(c.w, Call(fn, a, b)), RaisedBy(c.w, fn, a, b, e),
                fn, a, b, share, path)

\* self.conn.<fn>(self.share, a[, b]) under _conv_smb_errors called with
\* args[0] = share and args[1] = path.
ClientCall(w, fn, a, b, share, path, e) ==
    ClientCallOn(Conn(w, e), fn, a, b, share, path, e)

\* Lines 264-269: the entries of the listing that answer for path.
Found(t, path) ==
    { i \in ListEntries(t, dirname(path)) :
        /\ i.filename # ".."
        /\ \/ (i.filename = "." /\ basename(path) = "")
           \/ i.filename = basename(path) }

ListPathMatch(r, found, path) ==
    IF r.err.kind # "none" THEN [w |-> r.w, err |-> r.err, isDirectory |-> FALSE]
    ELSE IF found = {}
         THEN [w |-> r.w, err |-> Err("ResourceNotFoundError", path),
               isDirectory |-> FALSE]
         ELSE [w |-> r.w, err |-> NoErr,
               isDirectory |-> (CHOOSE i \in found : TRUE).isDirectory]

\* Lines 259-270: _listPath(path), list_contents false.
ListPathNode(w, path, e) ==
    ListPathMatch(ClientCall(w, "listPath", dirname(path), NoPath, SHARE, dirname(path), e),
                  Found(w.tree, path), path)

\* A handler that expects only a missing path.
ExceptNotFound(r) ==
    IF r.err.kind = "ResourceNotFoundError"
    THEN [w |-> r.w, err |-> NoErr, ret |-> FALSE]
    ELSE [w |-> r.w, err |-> r.err, ret |-> FALSE]

\* Lines 351-352 and 359-360: except FSError: return False.
ExceptFSError(r) ==
    IF IsFSError(r.err.kind) THEN [w |-> r.w, err |-> NoErr, ret |-> FALSE]
    ELSE [w |-> r.w, err |-> r.err, ret |-> FALSE]

IsFileOf(r) ==
    IF r.err.kind = "none" THEN [w |-> r.w, err |-> NoErr, ret |-> ~r.isDirectory]
    ELSE ExceptFSError(r)

IsDirOf(r) ==
    IF r.err.kind = "none" THEN [w |-> r.w, err |-> NoErr, ret |-> r.isDirectory]
    ELSE ExceptFSError(r)

\* Lines 346-352: isfile.
isfile(w, raw, e) == IsFileOf(ListPathNode(w, normpath(raw), e))

\* Lines 354-360: isdir.
isdir(w, raw, e) == IsDirOf(ListPathNode(w, normpath(raw), e))

ExistsAfter(f, path, e) ==
    IF f.err.kind # "none" \/ f.ret THEN f ELSE isdir(f.w, path, e)

\* fs.base.FS.exists, which SMBFS inherits: isfile(path) or isdir(path).
exists(w, path, e) == ExistsAfter(isfile(w, path, e), path, e)

----------------------------------------------------------------------------
(* The operations.                                                          *)

\* Lines 285-288: _create_dir, decorated: args = (self, path).
CreateDir(w, p, e) == ClientCall(w, "createDirectory", p, NoPath, SELF, p, e)

\* Lines 290-293: _remove_dir.
RemoveDir(w, p, e) == ClientCall(w, "deleteDirectory", p, NoPath, SELF, p, e)

\* Lines 417-419: the prefix is a directory that exists.
MakedirExistsDir(d, path, recursive, allow_recreate) ==
    IF d.err.kind # "none" THEN Ret(d.w, d.err)
    ELSE IF d.ret /\ ~recursive /\ ~allow_recreate
         THEN Ret(d.w, Err("DestinationExistsError", path))
         ELSE Ret(d.w, NoErr)

\* Lines 415-417.
MakedirExistsFile(f, p, path, recursive, allow_recreate, e) ==
    IF f.err.kind # "none" THEN Ret(f.w, f.err)
    ELSE IF f.ret THEN Ret(f.w, Err("ResourceInvalidError", path))
    ELSE MakedirExistsDir(isdir(f.w, p, e), path, recursive, allow_recreate)

\* Lines 414-419: makedir's handler of DestinationExistsError for prefix p.
MakedirExists(w, p, path, recursive, allow_recreate, e) ==
    MakedirExistsFile(isfile(w, p, e), p, path, recursive, allow_recreate, e)

MakedirParent(d, path, err) ==
    IF d.err.kind # "none" THEN Ret(d.w, d.err)
    ELSE IF ~d.ret THEN Ret(d.w, Err("ParentDirectoryMissingError", path))
    ELSE Ret(d.w, [err EXCEPT !.path = path])

\* Lines 420-424: makedir's handler of ResourceNotFoundError for prefix p.
MakedirNotFound(w, p, path, recursive, err, e) ==
    IF recursive THEN Ret(w, [err EXCEPT !.path = path])
    ELSE MakedirParent(isdir(w, dirname(p), e), path, err)

\* Lines 412-427: the try around _create_dir(p), which gave c.
MakedirHandle(c, p, path, recursive, allow_recreate, e) ==
    CASE c.err.kind = "none" -> c
      [] c.err.kind = "DestinationExistsError" ->
            MakedirExists(c.w, p, path, recursive, allow_recreate, e)
      [] c.err.kind = "ResourceNotFoundError" ->
            MakedirNotFound(c.w, p, path, recursive, c.err, e)
      [] OTHER ->
            IF IsFSError(c.err.kind) THEN Ret(c.w, [c.err EXCEPT !.path = path])
            ELSE c

RECURSIVE MakedirLoop(_, _, _, _, _, _, _)

MakedirNext(h, paths, i, path, recursive, allow_recreate, e) ==
    IF h.err.kind # "none" THEN h
    ELSE MakedirLoop(h.w, paths, i + 1, path, recursive, allow_recreate, e)

\* Lines 407-427: makedir's loop, from the i-th of paths on.
MakedirLoop(w, paths, i, path, recursive, allow_recreate, e) ==
    IF i > Len(paths) THEN Ret(w, NoErr)
    ELSE IF paths[i] = <<>>
    THEN MakedirLoop(w, paths, i + 1, path, recursive, allow_recreate, e)
    ELSE MakedirNext(
            MakedirHandle(CreateDir(w, paths[i], e), paths[i], path,
                          recursive, allow_recreate, e),
            paths, i, path, recursive, allow_recreate, e)

\* The prefixes deepest first.
MakedirPathsReversed(path, recursive) ==
    IF recursive THEN [i \in 1..(Len(path) + 1) |-> SubSeq(path, 1, Len(path) + 1 - i)]
    ELSE <<path>>

\* Line 406.
MakedirPaths(path, recursive) == IF recursive THEN recursepath(path) ELSE <<path>>

\* Lines 403-427: makedir.
makedir(w, path, recursive, allow_recreate, e) ==
    MakedirLoop(w, MakedirPaths(path, recursive), 1, path, recursive, allow_recreate, e)

\* Lines 429-433: remove; _conv_smb_errors sees the argument as given.
remove(w, raw, e) ==
    ClientCall(w, "deleteFiles", normpath(raw), NoPath, SELF, raw, e)

\* Lines 304-309: a missing file is no error; then the contents are stored.
SetContentsStore(r, raw, e) ==
    IF r.err.kind \notin {"none", "ResourceNotFoundError"} THEN r
    ELSE ClientCall(r.w, "storeFile", normpath(raw), NoPath, SELF, raw, e)

\* Lines 295-309: setcontents.
setcontents(w, raw, e) == SetContentsStore(remove(w, normpath(raw), e), raw, e)

\* Lines 176-179.
DetermineParentFile(f, p) ==
    IF f.err.kind # "none" THEN Ret(f.w, f.err)
    ELSE IF f.ret THEN Ret(f.w, Err("ResourceInvalidError", p))
    ELSE Ret(f.w, Err("ParentDirectoryMissingError", p))

\* Lines 175-181.
DetermineParentDir(d, p, e) ==
    IF d.err.kind # "none" THEN Ret(d.w, d.err)
    ELSE IF d.ret THEN Ret(d.w, Err("ResourceNotFoundError", p))
    ELSE DetermineParentFile(isfile(d.w, dirname(p), e), p)

RECURSIVE DetermineLoop(_, _, _, _)

\* Lines 173-174: fs.exists(p) gave x.
DetermineExists(x, ps, i, e) ==
    IF x.err.kind # "none" THEN Ret(x.w, x.err)
    ELSE IF x.ret THEN DetermineLoop(x.w, ps, i + 1, e)
    ELSE DetermineParentDir(isdir(x.w, dirname(ps[i]), e), ps[i], e)

\* Lines 172-181: _determine_cause's search for the path that is missing,
\* from the i-th of (src, dst) on; nothing is raised when none is.
DetermineLoop(w, ps, i, e) ==
    IF i > Len(ps) THEN Ret(w, NoErr)
    ELSE DetermineExists(exists(w, ps[i], e), ps, i, e)

\* A rename that is not wrapped: the translator's error as it is.
DetermineCauseNone(r, src, dst, e) == r

\* Lines 163-182: _determine_cause around outer(fs, src, dst), which gave r.
DetermineCause(r, src, dst, e) ==
    CASE r.err.kind = "DestinationExistsError" ->
            Ret(r.w, Err("DestinationExistsError", dst))
      [] r.err.kind = "ResourceNotFoundError" -> DetermineLoop(r.w, <<src, dst>>, 1, e)
      [] OTHER -> r

\* Lines 280-283: _rename, decorated: args = (self, src, dst).
Rename_(w, src, dst, e) == ClientCall(w, "rename", src, dst, SELF, src, e)

\* Lines 457-461: rename, its two paths normalised first.
rename(w, rawsrc, rawdst, e) ==
    DetermineCause(Rename_(w, normpath(rawsrc), normpath(rawdst), e),
                   normpath(rawsrc), normpath(rawdst), e)

\* Lines 323-328: close.
close(w) ==
    IF w.conn # "None"
    THEN Logged([w EXCEPT !.conn = "None", !.live = @ - 1],
                Call("close", NoPath, NoPath))
    ELSE w

\* A set of paths in the order the server lists them.
RECURSIVE SeqOf(_)
SeqOf(S) ==
    IF S = {} THEN <<>>
    ELSE <<CHOOSE y \in S : \A z \in S : Len(y) <= Len(z)>>
         \o SeqOf(S \ {CHOOSE y \in S : \A z \in S : Len(y) <= Len(z)})

\* Lines 255-258: the listing raised not-found; isfile(path) decides the
\* error, which walk ignores.
ListDirProbe(f) == [w |-> f.w, names |-> <<>>]

ListDirNames(r, t, p, dirs_only, e) ==
    IF r.err.kind = "none"
    THEN [w |-> r.w,
          names |-> SeqOf({ q \in Children(t, p) : (t[q] = "dir") = dirs_only })]
    ELSE IF r.err.kind = "ResourceNotFoundError"
         THEN ListDirProbe(isfile(r.w, p, e))
         ELSE [w |-> r.w, names |-> <<>>]

\* fs.base.FS.walk's listdir(path, ...) with ignore_errors, over lines
\* 246-258 and 377-401: the directories (dirs_only) or the files
\* (files_only) of p, nothing when the listing raises.
ListDirIgnoring(w, p, dirs_only, e) ==
    ListDirNames(ClientCall(w, "listPath", p, NoPath, SHARE, p, e),
                 w.tree, p, dirs_only, e)

RECURSIVE RemoveFiles(_, _, _, _)

RemoveFilesNext(r, fs, i, e) ==
    IF r.err.kind # "none" THEN r ELSE RemoveFiles(r.w, fs, i + 1, e)

\* Lines 447-448: remove each file of del_files, from the i-th on.
RemoveFiles(w, fs, i, e) ==
    IF i > Len(fs) THEN Ret(w, NoErr)
    ELSE RemoveFilesNext(remove(w, fs[i], e), fs, i, e)

RECURSIVE RemoveDirs(_, _, _, _)

RemoveDirsNext(r, paths, i, e) ==
    IF r.err.kind # "none" THEN r ELSE RemoveDirs(r.w, paths, i + 1, e)

\* Lines 451-453: _remove_dir on each of paths, from the i-th on.
RemoveDirs(w, paths, i, e) ==
    IF i > Len(paths) THEN Ret(w, NoErr)
    ELSE RemoveDirsNext(RemoveDir(w, paths[i], e), paths, i, e)

RECURSIVE ForceRecurse(_, _, _)
RECURSIVE ForceSubdirs(_, _, _, _)

\* Line 449: removedir(del_dir) once its files are gone.
ForceRemoveDir(d, p, e) ==
    IF d.err.kind # "none" THEN d ELSE RemoveDir(d.w, p, e)

\* Lines 447-449 for one (del_dir, del_files) of the walk.
ForceFiles(f, p, e) == ForceRemoveDir(RemoveFiles(f.w, f.names, 1, e), p, e)

ForceAfterSubdirs(s, p, e) ==
    IF s.err.kind # "none" THEN s
    ELSE ForceFiles(ListDirIgnoring(s.w, p, FALSE, e), p, e)

ForceSubdirsOf(l, e) == ForceSubdirs(l.w, l.names, 1, e)

\* A walk that does not descend: p's files, then p.
ForceRecurseFlat(w, p, e) == ForceFiles(ListDirIgnoring(w, p, FALSE, e), p, e)

\* Lines 445-449 over walk(path, search="depth", ignore_errors=True): the
\* directories under p first, each the same way, then p's files, then p.
ForceRecurse(w, p, e) ==
    ForceAfterSubdirs(ForceSubdirsOf(ListDirIgnoring(w, p, TRUE, e), e), p, e)

ForceSubdirsNext(r, subs, i, e) ==
    IF r.err.kind # "none" THEN r ELSE ForceSubdirs(r.w, subs, i + 1, e)

ForceSubdirs(w, subs, i, e) ==
    IF i > Len(subs) THEN Ret(w, NoErr)
    ELSE ForceSubdirsNext(ForceRecurse(w, subs[i], e), subs, i, e)

\* recursepath(path, reverse=True)[:-1]: the path, then its ancestors, the
\* root left out.
AncestorsUp(path) == [i \in 1..Len(path) |-> SubSeq(path, 1, Len(path) + 1 - i)]

\* fs.base.FS.walk raises ResourceNotFoundError for a path that does not exist.
RemoveDirForce(x, path, e) ==
    IF x.err.kind # "none" THEN Ret(x.w, x.err)
    ELSE IF ~x.ret THEN Ret(x.w, Err("ResourceNotFoundError", path))
    ELSE ForceRecurse(x.w, path, e)

RemoveDirPath(w, path, recursive, force, e) ==
    IF path = <<>> THEN Ret(w, Err("RemoveRootError", path))
    ELSE IF force THEN RemoveDirForce(exists(w, path, e), path, e)
    ELSE IF recursive THEN RemoveDirs(w, AncestorsUp(path), 1, e)
    ELSE RemoveDir(w, path, e)

\* Lines 435-455: removedir; _conv_smb_errors leaves what was raised inside
\* as it is.
removedir(w, raw, recursive, force, e) ==
    RemoveDirPath(w, normpath(raw), recursive, force, e)

----------------------------------------------------------------------------
(* The adapter as a state machine: one action per public operation, each   *)
(* the whole call (every public method runs under the adapter's lock).     *)

TreeOf(dirs, files) ==
    [p \in Paths |-> IF p = <<>> \/ p \in dirs THEN "dir"
                     ELSE IF p \in files THEN "file" ELSE "none"]

\* The shares an adapter is constructed against.
InitTrees ==
    { TreeOf({}, {}),
      TreeOf({<<"a">>, <<"a", "b">>, <<"d">>}, {<<"a", "b", "c">>, <<"a", "f">>, <<"d", "e">>}),
      TreeOf({<<"d">>}, {<<"a">>}) }

Op(op, a, b, f1, f2, err, ret) ==
    [op |-> op, a |-> a, b |-> b, f1 |-> f1, f2 |-> f2, err |-> err, ret |-> ret]

\* No call is in progress and no result is waiting for the caller.
Idle == Op("idle", NoPath, NoPath, FALSE, FALSE, NoErr, FALSE)

ConvIdle == [exc |-> NoExc, share |-> SHARE, path |-> NoPath, out |-> NoErr, done |-> FALSE]
LockIdle == [kind |-> "RLock", owner |-> "none", depth |-> 0]

\* Lines 221-239: __init__; no connection is made.
Init ==
    /\ tree \in InitTrees
    /\ conn = "None"
    /\ live = 0
    /\ net = NoExc
    /\ res = Idle
    /\ calls = <<>>
    /\ conv = ConvIdle
    /\ lock = LockIdle
    /\ stack = <<>>
    /\ at = <<>>

W == [tree |-> tree, conn |-> conn, live |-> live, calls |-> <<>>]

\* The failures a call on an unconnected object may raise in this state.
UChoices ==
    IF conn = "unconnected" \/ (conn = "None" /\ StrikesConnect(net))
    THEN UnconnectedExcs ELSE {NotConnectedError}

Env(u) == [net |-> net, u |-> u]

\* A call, from the caller's invocation to what it gets back.
Done(w, r) ==
    /\ res = Idle
    /\ tree' = w.tree
    /\ conn' = w.conn
    /\ live' = w.live
    /\ calls' = w.calls
    /\ res' = r
    /\ UNCHANGED <<net, conv, lock, stack, at>>

\* A call that returns nothing, and one that returns a truth value.
Returns(r, op, a, b, f1, f2) == Done(r.w, Op(op, a, b, f1, f2, r.err, FALSE))
Answers(r, op, a) == Done(r.w, Op(op, a, NoPath, FALSE, FALSE, r.err, r.ret))

\* The server or the network changes what the next calls meet.
SetNet ==
    /\ res = Idle
    /\ \E f \in Faults \cup {NoExc} : f # net /\ net' = f
    /\ UNCHANGED <<tree, conn, live, res, calls, conv, lock, stack, at>>

IsFile ==
    \E raw \in RawPaths, u \in UChoices :
        Answers(isfile(W, raw, Env(u)), "isfile", raw)

IsDir ==
    \E raw \in RawPaths, u \in UChoices :
        Answers(isdir(W, raw, Env(u)), "isdir", raw)

MakeDir ==
    \E path \in Paths, recursive \in BOOLEAN, allow_recreate \in BOOLEAN, u \in UChoices :
        Returns(makedir(W, path, recursive, allow_recreate, Env(u)),
                "makedir", path, NoPath, recursive, allow_recreate)

Remove ==
    \E raw \in RawPaths, u \in UChoices :
        Returns(remove(W, raw, Env(u)), "remove", raw, NoPath, FALSE, FALSE)

RemoveDirectory ==
    \E raw \in RawPaths, recursive \in BOOLEAN, force \in BOOLEAN, u \in UChoices :
        Returns(removedir(W, raw, recursive, force, Env(u)),
                "removedir", raw, NoPath, recursive, force)

Rename ==
    \E src \in Paths, rawdst \in RawPaths, u \in UChoices :
        /\ normpath(rawdst) \notin Under(src)
        /\ RenameFits(tree, src, normpath(rawdst))
        /\ Returns(rename(W, src, rawdst, Env(u)), "rename", src, rawdst, FALSE, FALSE)

SetContents ==
    \E raw \in RawPaths, u \in UChoices :
        Returns(setcontents(W, raw, Env(u)), "setcontents", raw, NoPath, FALSE, FALSE)

\* Lines 323-328.
Close ==
    Done(close(W), Op("close", NoPath, NoPath, FALSE, FALSE, NoErr, FALSE))

\* Lines 241-244: __getstate__ closes the connection before pickling.
GetState ==
    Done(close(W), Op("__getstate__", NoPath, NoPath, FALSE, FALSE, NoErr, FALSE))

\* The caller takes the result (the value or the exception) of its call.
Collect ==
    /\ res # Idle
    /\ res' = Idle
    /\ calls' = <<>>
    /\ UNCHANGED <<tree, conn, live, net, conv, lock, stack, at>>

\* The adapter against a server that is reachable and serves every call.
Next ==
    \/ Collect
    \/ IsFile
    \/ IsDir
    \/ MakeDir
    \/ Remove
    \/ RemoveDirectory
    \/ Rename
    \/ SetContents
    \/ Close
    \/ GetState

Spec == Init /\ [][Next]_vars

\* The adapter against a network and a server that fail: the operations
\* whose calls are translated (isfile, isdir, remove) and the connection's
\* life (first use, close, pickling).
NextNet ==
    \/ SetNet
    \/ Collect
    \/ IsFile
    \/ IsDir
    \/ Remove
    \/ Close
    \/ GetState

SpecNet == Init /\ [][NextNet]_vars

\* Every reachable share is a tree.
TypeOK == WellFormed(tree) /\ conn \in {"None", "unconnected", "connected"}

----------------------------------------------------------------------------
(* rename on a share that has other clients: the share may change between  *)
(* the rename the client refused and the probes of _determine_cause.       *)

\* The adapter's state with the calls of the operation in progress.
WNow == [tree |-> tree, conn |-> conn, live |-> live, calls |-> calls]

\* A step of an operation in progress: its position and outcome so far.
Step(w, r) ==
    /\ tree' = w.tree
    /\ conn' = w.conn
    /\ live' = w.live
    /\ calls' = w.calls
    /\ res' = r
    /\ UNCHANGED <<net, conv, lock, stack, at>>

\* Lines 164-165: rename's paths are normalised and outer, the decorated
\* _rename, has returned or raised; _determine_cause has not handled it yet.
RenameCalled(r, rawsrc, rawdst) ==
    /\ res = Idle
    /\ Step(r.w, Op("_rename", rawsrc, rawdst, FALSE, FALSE, r.err, FALSE))

RenameCall ==
    \E src \in Paths, rawdst \in RawPaths, u \in UChoices :
        /\ normpath(rawdst) \notin Under(src)
        /\ RenameFits(tree, src, normpath(rawdst))
        /\ RenameCalled(Rename_(W, src, normpath(rawdst), Env(u)), src, rawdst)

\* Another client of the share creates or deletes a file or a directory.
OtherClient ==
    /\ \E p \in Paths \ {<<>>}, k \in {"none", "file", "dir"} :
          /\ tree[p] # k
          /\ WellFormed([tree EXCEPT ![p] = k])
          /\ tree' = [tree EXCEPT ![p] = k]
    /\ UNCHANGED <<conn, live, net, res, calls, conv, lock, stack, at>>

\* Lines 166-182: _determine_cause handles what outer raised, probing the
\* share as it is now, and rename returns or raises to its caller.
RenameCaused(r) ==
    Step(r.w, Op("rename", res.a, res.b, FALSE, FALSE, r.err, FALSE))

RenameCause ==
    /\ res.op = "_rename"
    /\ \E u \in UChoices :
          RenameCaused(DetermineCause(Ret(WNow, res.err), normpath(res.a),
                                      normpath(res.b), Env(u)))

NextShared ==
    \/ RenameCall
    \/ OtherClient
    \/ RenameCause
    \/ Collect

SpecShared == Init /\ [][NextShared]_vars

----------------------------------------------------------------------------
(* The translator alone: _conv_smb_errors around a call that raises.       *)

MaxMsgs == 2

\* The message lists of an operation failure, one protocol version each.
RECURSIVE CodeLists(_)
CodeLists(n) ==
    IF n = 1 THEN { <<c>> : c \in StatusCodes }
    ELSE CodeLists(n - 1)
         \cup { Append(l, c) : l \in { k \in CodeLists(n - 1) : Len(k) = n - 1 },
                               c \in StatusCodes }

MsgLists == { [i \in 1..Len(l) |-> Msg(pv, l[i])] : l \in CodeLists(MaxMsgs), pv \in {1, 2} }

\* What the wrapped client raises.
ExcInputs ==
    { OperationFailure(m) : m \in MsgLists }
    \cup { NotConnectedError, NotReadyError }
    \cup { GaiError(n) : n \in {"EAI_NONAME", "EAI_AGAIN"} }
    \cup { SocketError(n) : n \in {"ECONNREFUSED", "EPIPE", "ETIMEDOUT", "ECONNRESET", "EHOSTUNREACH"} }

ConvPaths == { <<"a">>, <<"a", "f">> }

InitConv ==
    /\ tree = TreeOf({}, {})
    /\ conn = "None"
    /\ live = 0
    /\ net = NoExc
    /\ res = Idle
    /\ calls = <<>>
    /\ conv \in { [exc |-> x, share |-> sh, path |-> pa, out |-> NoErr, done |-> FALSE] :
                    x \in ExcInputs, sh \in {SHARE, SELF}, pa \in ConvPaths }
    /\ lock = LockIdle
    /\ stack = <<>>
    /\ at = <<>>

\* inner(*args): outer raised conv.exc; args[0] = share, args[1] = path.
Translate ==
    /\ ~conv.done
    /\ conv' = [conv EXCEPT !.out = ConvSmbErrors(conv.exc, conv.share, conv.path),
                            !.done = TRUE]
    /\ UNCHANGED <<tree, conn, live, net, res, calls, lock, stack, at>>

NextConv == Translate

SpecConv == InitConv /\ [][NextConv]_vars

----------------------------------------------------------------------------
(* C4, C5: the translator.                                                  *)

\* The kind each supported status stands for.
KindOfStatus(code) ==
    CASE code \in {"0x103", "0xc000000f", "0xc0000034", "0xc000003a"} -> "ResourceNotFoundError"
      [] code = "0xc0000022" -> "PermissionDeniedError"
      [] code \in {"0xc0000033", "0xc00000ba", "0xc00000cc", "0xc00000d0", "0xc0000103"} ->
            "ResourceInvalidError"
      [] code = "0xc0000035" -> "DestinationExistsError"
      [] code = "0xc0000056" -> "DeletePendingError"
      [] code = "0xc000006f" -> "AccountTimeRestrictedError"
      [] code = "0xc0000071" -> "PasswordExpiredError"
      [] code = "0xc0000101" -> "DirectoryNotEmptyError"
      [] code = "0xc0000193" -> "AccountExpiredError"
      [] code = "0xc0000224" -> "PasswordChangeRequiredError"
      [] code = "0xc0000234" -> "AccountLockedError"
      [] OTHER -> "unsupported"

StatusAt(exc, i) ==
    IF exc.msgs[i].protocol = 1 THEN exc.msgs[i].status.internal_value
    ELSE exc.msgs[i].status.bare

\* i is the first message of exc whose status is not success.
FirstFailure(exc, i) ==
    /\ i \in 1..Len(exc.msgs)
    /\ StatusAt(exc, i) # "0x0"
    /\ \A j \in 1..(i - 1) : StatusAt(exc, j) = "0x0"

\* C4 as claimed: an operation failure with a non-success message is decided
\* by its first non-success message alone; a supported status gives the kind
\* the table names for it, carrying the path argument of the failing call.
C4_PathAlwaysAttached ==
    (conv.done /\ conv.exc.type = "OperationFailure") =>
        \A i \in 1..Len(conv.exc.msgs) :
            (FirstFailure(conv.exc, i) /\ StatusAt(conv.exc, i) \in MappedStatus) =>
                /\ conv.out.kind = KindOfStatus(StatusAt(conv.exc, i))
                /\ conv.out.path = conv.path

\* C4 amended: the same, but the error for 0xc00000cc (the share does not
\* exist) carries the call's first argument, the share, instead of the path.
C4_FirstFailureDecides ==
    (conv.done /\ conv.exc.type = "OperationFailure") =>
        \A i \in 1..Len(conv.exc.msgs) :
            (FirstFailure(conv.exc, i) /\ StatusAt(conv.exc, i) \in MappedStatus) =>
                /\ conv.out.kind = KindOfStatus(StatusAt(conv.exc, i))
                /\ ~conv.out.raw
                /\ conv.out.path = IF StatusAt(conv.exc, i) = "0xc00000cc"
                                   THEN conv.share ELSE conv.path

\* A success message first, then a supported failure: the failure decided.
C4_Witness ==
    /\ conv.done
    /\ conv.exc.type = "OperationFailure"
    /\ Len(conv.exc.msgs) = 2
    /\ StatusAt(conv.exc, 1) = "0x0"
    /\ StatusAt(conv.exc, 2) = "0xc0000035"
    /\ conv.out = Err("DestinationExistsError", conv.path)

\* The caller got one member of the taxonomy, or the internal error for an
\* unmapped first non-success status; not the client's own exception.
Translated(c) ==
    /\ ~c.out.raw
    /\ \/ c.out.kind \in Taxonomy
       \/ /\ c.out.kind = "Exception"
          /\ c.exc.type = "OperationFailure"
          /\ \E i \in 1..Len(c.exc.msgs) :
                FirstFailure(c.exc, i) /\ StatusAt(c.exc, i) \notin MappedStatus

\* C5 as claimed: no failure of the wrapped client leaves the translation
\* boundary as the client's own exception.
C5_NothingRaw == conv.done => Translated(conv)

\* The failures the translator has a case for.
Handled(exc) ==
    \/ exc.type \in {"NotConnectedError", "NotReadyError"}
    \/ exc.type = "gaierror" /\ exc.errno = "EAI_NONAME"
    \/ exc.type = "socket.error" /\ exc.errno \in {"ECONNREFUSED", "EPIPE", "ETIMEDOUT"}
    \/ exc.type = "OperationFailure" /\ \E i \in 1..Len(exc.msgs) : StatusAt(exc, i) # "0x0"

\* C5 amended: a handled failure reaches the caller translated; every other
\* one (another errno, an operation failure with no non-success message)
\* reaches it as the client's own exception.
C5_HandledTranslated ==
    conv.done =>
        IF Handled(conv.exc) THEN Translated(conv)
        ELSE conv.out.raw /\ conv.out.kind = conv.exc.type

C5_Witness ==
    /\ conv.done
    /\ conv.exc = SocketError("EPIPE")
    /\ conv.out.kind = "RemoteConnectionError"

----------------------------------------------------------------------------
(* C1, C2, C6, C7: the operations against a server that serves every call. *)

\* The calls of the last operation on the share, the connect left out.
ShareCalls(cs) == SelectSeq(cs, LAMBDA c : c.fn \notin {"connect", "close"})

\* Every proper prefix of p but the root, and p itself.
Prefixes(p) == { SubSeq(p, 1, k) : k \in 1..Len(p) }

\* C1: rename(src, dst) with src present, dst absent and nothing at dst's
\* parent raises parent-directory-missing carrying the normalised dst.
C1_ParentMissingIsDst ==
    [][ ( /\ res'.op = "rename"
          /\ Kind(tree, normpath(res'.a)) # "none"
          /\ Kind(tree, normpath(res'.b)) = "none"
          /\ Kind(tree, dirname(normpath(res'.b))) = "none" )
        => /\ res'.err = Err("ParentDirectoryMissingError", normpath(res'.b))
           /\ \E i \in 1..Len(calls') :
                 calls'[i] = Call("rename", normpath(res'.a), normpath(res'.b))
           /\ tree' = tree ]_vars

\* Such a rename, the destination given with a "." in it.
C1_Witness ==
    /\ res.op = "rename"
    /\ res.b = <<"d", ".", "e">>
    /\ tree[res.a] = "file"
    /\ tree[<<"d">>] = "none"
    /\ res.err = Err("ParentDirectoryMissingError", <<"d", "e">>)

\* path and every ancestor of it exist as directories.
AllDirs(t, p) == \A q \in Prefixes(p) : Kind(t, q) = "dir"

\* C2 as claimed: with path and its ancestors in place, makedir(path,
\* recursive=True, allow_recreate=True) succeeds and changes nothing, and
\* makedir(path, recursive=True) raises destination-exists.
C2_RerunRaisesWithoutRecreate ==
    [][ ( /\ res'.op = "makedir"
          /\ res'.f1
          /\ res'.a # <<>>
          /\ AllDirs(tree, res'.a) )
        => IF res'.f2
           THEN res'.err = NoErr /\ tree' = tree
           ELSE res'.err.kind = "DestinationExistsError" ]_vars

\* The half of C2 the code keeps: the re-run with allow_recreate.
C2_RerunWithRecreate ==
    [][ ( /\ res'.op = "makedir"
          /\ res'.f1
          /\ res'.f2
          /\ res'.a # <<>>
          /\ AllDirs(tree, res'.a) )
        => res'.err = NoErr /\ tree' = tree ]_vars

\* The share before the i-th of the calls cs, t being the share before the
\* first: each call the server serves takes effect.
RECURSIVE ShareBefore(_, _, _)
ShareBefore(t, cs, i) ==
    IF i <= 1 THEN t
    ELSE IF ServerExc(cs[i - 1].fn, ShareBefore(t, cs, i - 1), cs[i - 1].a, cs[i - 1].b).type = "none"
         THEN ServerEffect(cs[i - 1].fn, ShareBefore(t, cs, i - 1), cs[i - 1].a, cs[i - 1].b)
         ELSE ShareBefore(t, cs, i - 1)

\* C6: removedir(path, force=True) on a directory other than the root that
\* has entries succeeds;
\* every directory it deletes is empty when its deletion is issued, the
\* last thing it deletes is path, nothing at or under path is left and
\* nothing else is touched.
C6_ForceDeletesBottomUp ==
    [][ ( /\ res'.op = "removedir"
          /\ res'.f2
          /\ normpath(res'.a) # <<>>
          /\ Kind(tree, normpath(res'.a)) = "dir"
          /\ Children(tree, normpath(res'.a)) # {} )
        => /\ res'.err = NoErr
           /\ \A i \in 1..Len(ShareCalls(calls')) :
                 ShareCalls(calls')[i].fn = "deleteDirectory" =>
                    Children(ShareBefore(tree, ShareCalls(calls'), i),
                             ShareCalls(calls')[i].a) = {}
           /\ ShareCalls(calls')[Len(ShareCalls(calls'))]
                 = Call("deleteDirectory", normpath(res'.a), NoPath)
           /\ \A q \in Paths :
                 tree'[q] = IF q \in Under(normpath(res'.a)) THEN "none" ELSE tree[q] ]_vars

\* A forced removal of /a that held a file and a directory with a file in it.
C6_Witness ==
    /\ res.op = "removedir"
    /\ res.f2
    /\ res.a = <<"a">>
    /\ res.err = NoErr
    /\ \E i, j, k \in 1..Len(calls) :
          /\ i < j /\ j < k
          /\ calls[i] = Call("deleteFiles", <<"a", "b", "c">>, NoPath)
          /\ calls[j] = Call("deleteDirectory", <<"a", "b">>, NoPath)
          /\ calls[k] = Call("deleteDirectory", <<"a">>, NoPath)
    /\ \E i \in 1..Len(calls) : calls[i] = Call("deleteFiles", <<"a", "f">>, NoPath)
    /\ \A q \in Under(<<"a">>) : tree[q] = "none"

\* C7: makedir(path, recursive=True) with nothing at any prefix of path
\* issues exactly one createDirectory per prefix, shallowest first, and
\* leaves every prefix a directory.
C7_CreatesTopDown ==
    [][ ( /\ res'.op = "makedir"
          /\ res'.f1
          /\ res'.a # <<>>
          /\ \A q \in Prefixes(res'.a) : Kind(tree, q) = "none" )
        => /\ res'.err = NoErr
           /\ ShareCalls(calls')
                 = [k \in 1..Len(res'.a) |->
                       Call("createDirectory", SubSeq(res'.a, 1, k), NoPath)]
           /\ \A q \in Prefixes(res'.a) : tree'[q] = "dir" ]_vars

\* /a/b/c made on a share that held none of /a, /a/b, /a/b/c.
C7_Witness ==
    /\ res.op = "makedir"
    /\ res.f1
    /\ res.a = <<"a", "b", "c">>
    /\ res.err = NoErr
    /\ Len(ShareCalls(calls)) = 3
    /\ \A i \in 1..3 : ShareCalls(calls)[i].fn = "createDirectory"
    /\ AllDirs(tree, <<"a", "b", "c">>)

----------------------------------------------------------------------------
(* C3, C8, C10: the adapter against a failing network.                     *)

Probes == {"isfile", "isdir"}

\* What the probe answers when its listing is served.
ProbeAnswer(op, t, p) == Kind(t, p) = (IF op = "isfile" THEN "file" ELSE "dir")

\* The failures of a call that the translator turns into a taxonomy member.
CallFaultTranslated(f) ==
    \/ f.type \in {"NotConnectedError", "NotReadyError"}
    \/ f.type = "socket.error" /\ f.errno \in {"ECONNREFUSED", "EPIPE", "ETIMEDOUT"}
    \/ /\ f.type = "OperationFailure"
       /\ \E i \in 1..Len(f.msgs) : FirstFailure(f, i) /\ StatusAt(f, i) \in MappedStatus

Connected(cs) == \E i \in 1..Len(cs) : cs[i].fn = "connect"

\* C3 as claimed: isfile and isdir never raise, whatever the client does.
C3_NeverRaises == res.op \in Probes => res.err = NoErr

\* C3 amended: isfile and isdir never raise a taxonomy error. Over a held
\* session they answer for the path when the listing is served (false for a
\* missing path) and answer false when it fails with a failure the
\* translator maps to the taxonomy; after a refused connection they answer
\* false. What they do raise is the internal error of an unmapped status
\* or the client's own exception.
C3_FalseOnTranslatedFailure ==
    res.op \in Probes =>
        /\ res.err.kind \notin Taxonomy
        /\ res.err # NoErr => (res.err.raw \/ res.err.kind = "Exception")
        /\ (conn = "connected" /\ ~StrikesCall(net)) =>
              /\ res.err = NoErr
              /\ res.ret = ProbeAnswer(res.op, tree, normpath(res.a))
        /\ (conn = "connected" /\ StrikesCall(net) /\ CallFaultTranslated(net)) =>
              res.err = NoErr /\ ~res.ret
        /\ (Connected(calls) /\ net = SocketError("ECONNREFUSED")) =>
              res.err = NoErr /\ ~res.ret

\* isdir of a directory that exists answers false while the session is down.
C3_Witness ==
    /\ res.op = "isdir"
    /\ tree[normpath(res.a)] = "dir"
    /\ net = NotConnectedError
    /\ conn = "connected"
    /\ res.err = NoErr
    /\ ~res.ret

\* C8 as claimed: when connecting failed and the caller was told
\* connection-lost, the adapter holds no connection, so that its next use
\* connects again.
C8_DisconnectedAfterFailedConnect ==
    ( /\ calls = <<Call("connect", NoPath, NoPath)>>
      /\ res.err.kind = "RemoteConnectionError" ) => conn = "None"

\* C10: at most one connection object is alive and it is the one _conn
\* holds; a connect is issued only while _conn is None, once, before any
\* other call; close and pickling close the held connection and leave none,
\* and do nothing when none is held.
C10_OneConnection ==
    [][ /\ live' \in {0, 1}
        /\ (live' = 1) = (conn' # "None")
        /\ Connected(calls') =>
              /\ conn = "None"
              /\ calls'[1].fn = "connect"
              /\ \A i \in 2..Len(calls') : calls'[i].fn # "connect"
        /\ res'.op \in {"close", "__getstate__"} =>
              /\ conn' = "None"
              /\ live' = 0
              /\ calls' = IF conn = "None" THEN <<>> ELSE <<Call("close", NoPath, NoPath)>>
        /\ (res'.op \notin {"close", "__getstate__", "idle"} /\ conn # "None") =>
              conn' = conn /\ live' = live ]_vars

\* A held connection was closed by pickling.
C10_Witness ==
    /\ res.op = "__getstate__"
    /\ calls = <<Call("close", NoPath, NoPath)>>
    /\ conn = "None"
    /\ live = 0

----------------------------------------------------------------------------
(* Threads on one adapter: the @synchronize decorators and FS._lock.       *)

Threads == {"t1", "t2"}

MaxStack == 3

PublicOps ==
    { "open", "setcontents", "conn", "close", "isfile", "isdir", "listdirinfo",
      "listdir", "makedir", "remove", "removedir", "rename", "getinfo" }

\* A method that lost its decorator.
SynchronizedButRemove(m) == m \in PublicOps \ {"remove"}

\* Lines 295, 312, 323, 330, 346, 354, 377, 396, 403, 429, 435, 457, 463:
\* the methods decorated with @synchronize.
Synchronized(m) == m \in PublicOps

\* The public methods a method calls, itself or through the private
\* helpers and the inherited exists and walk, which take no lock of their own.
Callees(m) ==
    CASE m = "open"        -> {"isdir", "setcontents", "conn"}
      [] m = "setcontents" -> {"remove", "conn"}
      [] m = "isfile"      -> {"conn"}
      [] m = "isdir"       -> {"conn"}
      [] m = "listdirinfo" -> {"conn", "isfile"}
      [] m = "listdir"     -> {"listdirinfo"}
      [] m = "makedir"     -> {"conn", "isfile", "isdir"}
      [] m = "remove"      -> {"conn"}
      [] m = "removedir"   -> {"remove", "removedir", "conn", "isfile", "isdir", "listdir"}
      [] m = "rename"      -> {"conn", "isfile", "isdir"}
      [] m = "getinfo"     -> {"conn"}
      [] OTHER             -> {}

\* The methods whose body calls the wrapped client: conn connects, close
\* closes, the others call a method of the connection conn gave them.
UsesClient(m) == m \in PublicOps \ {"listdir"}

Top(t) == stack[t][Len(stack[t])]

\* Line 239: FS.__init__(thread_synchronize) makes _lock an RLock, or a
\* lock that excludes nobody when thread_synchronize is false.
InitThreads ==
    /\ tree = TreeOf({}, {})
    /\ conn = "None"
    /\ live = 0
    /\ net = NoExc
    /\ res = Idle
    /\ calls = <<>>
    /\ conv = ConvIdle
    /\ lock \in { [kind |-> k, owner |-> "none", depth |-> 0] : k \in {"RLock", "DummyLock"} }
    /\ stack = [t \in Threads |-> <<>>]
    /\ at = [t \in Threads |-> "run"]

\* Whether entering m takes the lock.
Locks(m) == lock.kind = "RLock" /\ Synchronized(m)

\* A thread calls a public method: from outside, or from the method it is in.
Enter(t, m) ==
    /\ at[t] = "run"
    /\ Len(stack[t]) < MaxStack
    /\ IF stack[t] = <<>> THEN TRUE ELSE m \in Callees(Top(t))
    /\ stack' = [stack EXCEPT ![t] = Append(@, m)]
    /\ at' = [at EXCEPT ![t] = "wait"]
    /\ UNCHANGED <<tree, conn, live, net, res, calls, conv, lock>>

\* synchronize: self._lock.acquire(), re-entrant for the owner.
Acquire(t) ==
    /\ at[t] = "wait"
    /\ IF Locks(Top(t))
       THEN /\ lock.owner \in {"none", t}
            /\ lock' = [lock EXCEPT !.owner = t, !.depth = @ + 1]
       ELSE lock' = lock
    /\ at' = [at EXCEPT ![t] = "run"]
    /\ UNCHANGED <<tree, conn, live, net, res, calls, conv, stack>>

\* The method's body calls the wrapped client.
ClientBegin(t) ==
    /\ at[t] = "run"
    /\ stack[t] # <<>>
    /\ UsesClient(Top(t))
    /\ at' = [at EXCEPT ![t] = "client"]
    /\ UNCHANGED <<tree, conn, live, net, res, calls, conv, lock, stack>>

ClientEnd(t) ==
    /\ at[t] = "client"
    /\ at' = [at EXCEPT ![t] = "run"]
    /\ UNCHANGED <<tree, conn, live, net, res, calls, conv, lock, stack>>

\* synchronize: finally self._lock.release().
Leave(t) ==
    /\ at[t] = "run"
    /\ stack[t] # <<>>
    /\ IF Locks(Top(t))
       THEN lock' = [lock EXCEPT !.depth = @ - 1,
                                 !.owner = IF lock.depth = 1 THEN "none" ELSE @]
       ELSE lock' = lock
    /\ stack' = [stack EXCEPT ![t] = SubSeq(@, 1, Len(@) - 1)]
    /\ UNCHANGED <<tree, conn, live, net, res, calls, conv, at>>

NextThreads ==
    \E t \in Threads :
        \/ \E m \in PublicOps : Enter(t, m)
        \/ Acquire(t)
        \/ ClientBegin(t)
        \/ ClientEnd(t)
        \/ Leave(t)

SpecThreads == InitThreads /\ [][NextThreads]_vars

----------------------------------------------------------------------------
(* C9: serialisation of the public operations.                             *)

\* The thread is inside the body of a public method.
Inside(t) == stack[t] # <<>> /\ ~(Len(stack[t]) = 1 /\ at[t] = "wait")

Serialised ==
    \A t1, t2 \in Threads :
        t1 # t2 => /\ ~(at[t1] = "client" /\ at[t2] = "client")
                   /\ ~(Inside(t1) /\ Inside(t2))

\* C9 as claimed: on any adapter instance no two threads are inside the
\* wrapped client, or inside public operations, at the same time.
C9_AlwaysSerialised == Serialised

\* C9 amended: on an adapter constructed with thread_synchronize true (the
\* default) the lock is held by the thread that is inside an operation, for
\* as long as it is, and no two threads are inside at the same time.
C9_SerialisedUnderLock ==
    lock.kind = "RLock" =>
        /\ Serialised
        /\ \A t \in Threads : Inside(t) => lock.owner = t /\ lock.depth >= 1

\* One thread is inside the client three locked methods deep while the
\* other waits at the lock.
C9_Witness ==
    /\ lock = [kind |-> "RLock", owner |-> "t1", depth |-> 3]
    /\ stack["t1"] = <<"open", "setcontents", "remove">>
    /\ at["t1"] = "client"
    /\ stack["t2"] = <<"rename">>
    /\ at["t2"] = "wait"

----------------------------------------------------------------------------
(* C11: rename returns normally only if the client's rename succeeded.     *)

\* The client's rename was refused with a not-found status: the decorated
\* _rename raised the translator's resource-not-found.
RenameNotFound == res.op = "_rename" /\ res.err.kind = "ResourceNotFoundError"

\* C11 as claimed: whenever the client's rename fails with a not-found
\* status, rename raises a filesystem error to its caller, whatever the
\* probes of src and dst find.
C11_FailedRenameRaises ==
    [][ (RenameNotFound /\ res'.op = "rename") => IsFSError(res'.err.kind) ]_vars

\* C11 with nobody else on the share: a rename that returns normally was
\* served by the client and changed the share.
C11_AloneOnTheShare ==
    [][ (res'.op = "rename" /\ res'.err = NoErr)
        => /\ ServerExc("rename", tree, normpath(res'.a), normpath(res'.b)) = NoExc
           /\ tree' = ServerEffect("rename", tree, normpath(res'.a), normpath(res'.b))
           /\ calls'[Len(calls')] = Call("rename", normpath(res'.a), normpath(res'.b)) ]_vars

====
